---- MODULE Spec2Model ----
(***************************************************************************)
(* Model of the sales chatbot (src/sales_chatbot.py, src/predict.py): the  *)
(* parameter extraction from the text-understanding collaborator's reply,  *)
(* the confidence / missing-info gate, the dispatch of handle_query to the *)
(* four analytics operations, and the conversation history.                *)
(*                                                                         *)
(* Encoding of Python values.  A value that may be None is a sequence of   *)
(* length 0 (None) or 1 (the value).  A dict is a function whose DOMAIN is *)
(* the set of keys present.  A confidence c is the integer 100 * c.  A     *)
(* date string made of digit fields joined by '-' is the sequence of its   *)
(* fields, each <<value, number of digits>>; any other string is free text.*)
(***************************************************************************)
EXTENDS Integers, Sequences, FiniteSets, TLC

VARIABLES
    df,                     \* self.df: None or the rows of the dataset
    available_items,        \* self.available_items: sorted list of item ids
    date_range,             \* self.date_range
    model_file,             \* state of xgb_sales_model_v3.pkl on disk
    data_file,              \* state of sales_data_with_mapped_ids_v3.csv on disk
    conversation_history,   \* self.conversation_history
    last,                   \* the last handle_query call: its inputs, the calls it made, its outcome
    parsed                  \* a _parse_date_input call: its input, the clock, its result

vars == <<df, available_items, date_range, model_file, data_file, conversation_history, last,
          parsed>>

(***************************************************************************)
(* Bounds of the model                                                     *)
(***************************************************************************)
MaxHistory == 2

(***************************************************************************)
(* Program constants                                                       *)
(***************************************************************************)
CONFIDENCE_THRESHOLD == 50
ItemListLimit == 10
TopN == 5
DefaultConfidence == 0

(***************************************************************************)
(* Python values                                                           *)
(***************************************************************************)
None == <<>>
Some(v) == <<v>>

\* dict.get(key, default)
DictGet(p, key, default) == IF key \in DOMAIN p THEN p[key] ELSE default

\* truth value of an optional integer: None and 0 are falsy
TruthyInt(v) == v # None /\ v[1] # 0

\* truth value of an optional list or string: None, [] and "" are falsy
TruthySeq(v) == v # None /\ v[1] # <<>>

Max2(a, b) == IF a >= b THEN a ELSE b

\* number of decimal digits of a natural number
NumDigits(n) == IF n < 10 THEN 1 ELSE IF n < 100 THEN 2 ELSE IF n < 1000 THEN 3 ELSE 4

(***************************************************************************)
(* Calendar                                                                *)
(***************************************************************************)
IsLeap(y) == (y % 4 = 0 /\ y % 100 # 0) \/ y % 400 = 0

\* a faulty variant of DaysInMonth: every month expanded to 31 days
DaysInMonthFixed31(y, m) == 31

\* calendar.monthrange(year, month)[1]
DaysInMonth(y, m) ==
    IF m = 2 THEN (IF IsLeap(y) THEN 29 ELSE 28)
    ELSE IF m \in {4, 6, 9, 11} THEN 30 ELSE 31

(***************************************************************************)
(* Date strings                                                            *)
(***************************************************************************)
\* a string of digit fields joined by '-'
NumStr(fields) == [f |-> fields, s |-> ""]
\* any other string
Text(s) == [f |-> <<>>, s |-> s]

\* f"{year}-{month:02d}-{day:02d}"
FormatDate(y, m, d) ==
    NumStr(<< <<y, NumDigits(y)>>, <<m, Max2(2, NumDigits(m))>>, <<d, Max2(2, NumDigits(d))>> >>)

\* datetime.strptime(date, '%Y-%m-%d') does not raise ValueError: %Y takes
\* exactly four digits, %m and %d take one or two, and the date must exist
StrptimeOk(ds) ==
    /\ Len(ds.f) = 3
    /\ ds.f[1][2] = 4 /\ ds.f[1][1] >= 1
    /\ ds.f[2][2] \in {1, 2} /\ ds.f[2][1] \in 1..12
    /\ ds.f[3][2] \in {1, 2}
    /\ ds.f[3][1] \in 1..DaysInMonth(ds.f[1][1], ds.f[2][1])

\* the calendar date <<y, m, d>> strptime reads in a string it accepts
StrptimeValue(ds) == <<ds.f[1][1], ds.f[2][1], ds.f[3][1]>>

\* canonical zero-padded YYYY-MM-DD
IsCanonical(ds) ==
    /\ Len(ds.f) = 3
    /\ ds.f[1][2] = 4 /\ ds.f[2][2] = 2 /\ ds.f[3][2] = 2

(***************************************************************************)
(* The text-understanding collaborator's reply and its parsing             *)
(*                                                                         *)
(* The reply text is a sequence of tokens: "{" and "}" are the brace       *)
(* characters, "b" is the text of an object's members (the reply's record),*)
(* "w" is prose without braces, "null" is the JSON literal null.           *)
(***************************************************************************)
Tokens == {"{", "}", "b", "w", "null"}

\* the extracted value: a dict, or a JSON value that is no dict
DictVal(d) == [t |-> "dict", d |-> d]
NonDictVal == [t |-> "none", d |-> <<>>]

\* json.loads(text) does not raise JSONDecodeError
JsonLoadsOk(text) == text \in { <<"{", "}">>, <<"{", "b", "}">>, <<"null">> }

\* json.loads(text), for a text it accepts; body is the dict the members denote
JsonLoads(text, body) ==
    IF text = <<"null">> THEN NonDictVal
    ELSE IF text = <<"{", "}">> THEN DictVal(<<>>)
    ELSE DictVal(body)

Positions(text, tok) == {i \in 1..Len(text) : text[i] = tok}
MinOf(S) == CHOOSE x \in S : \A y \in S : x <= y
MaxOf(S) == CHOOSE x \in S : \A y \in S : x >= y

\* re.search(r'\{.*\}', content, re.DOTALL): the match runs from the first "{"
\* to the last "}" after it (greedy); <<>> when there is no match
RegexSearch(text) ==
    IF Positions(text, "{") = {} THEN <<>>
    ELSE LET i == MinOf(Positions(text, "{"))
             js == {j \in Positions(text, "}") : j > i}
         IN IF js = {} THEN <<>> ELSE SubSeq(text, i, MaxOf(js))

\* the record returned when extraction fails (the except branch)
FailSoftRecord ==
    [query_type |-> Some("prediction"),
     item_id |-> None,
     date |-> None,
     confidence |-> Some(0),
     missing_info |-> Some(<<"item_id", "date">>),
     clarification_needed |-> Some("I couldn't understand your request. Please specify the item ID and date for sales prediction.")]

\* extract_parameters: resp.kind is "api_error" (the call raised), "no_content"
\* (message.content is None, so .strip() raises) or "text"
extract_parameters(resp) ==
    IF resp.kind # "text" THEN DictVal(FailSoftRecord)
    ELSE IF JsonLoadsOk(resp.text) THEN JsonLoads(resp.text, resp.body)
    ELSE IF RegexSearch(resp.text) # <<>> /\ JsonLoadsOk(RegexSearch(resp.text))
         THEN JsonLoads(RegexSearch(resp.text), resp.body)
         ELSE DictVal(FailSoftRecord)

(***************************************************************************)
(* The dataset                                                             *)
(***************************************************************************)
Row(item, y, m, d, sold) == [item |-> item, date |-> <<y, m, d>>, sold |-> sold]

\* the rows of sales_data_with_mapped_ids_v3.csv, in file order
Data ==
    << Row(3, 2024, 5, 1, 42), Row(1, 2024, 5, 1, 50), Row(2, 2024, 5, 1, 50),
       Row(1, 2024, 5, 4, 7),  Row(2, 2024, 5, 4, 7),  Row(4, 2024, 5, 1, 30),
       Row(5, 2024, 5, 1, 20), Row(6, 2024, 5, 1, 10), Row(7, 2024, 5, 1, 9),
       Row(8, 2024, 5, 1, 8),  Row(9, 2024, 5, 1, 0),  Row(10, 2024, 5, 1, 6),
       Row(11, 2024, 5, 1, 5), Row(0, 2024, 5, 1, 3),  Row(3, 2023, 5, 1, 90),
       Row(1, 2024, 2, 29, 4), Row(1, 2023, 2, 28, 2), Row(1, 2024, 4, 5, 11) >>

RECURSIVE SortedSeq(_)
\* sorted(S) for a finite set of integers
SortedSeq(S) == IF S = {} THEN <<>> ELSE <<MinOf(S)>> \o SortedSeq(S \ {MinOf(S)})

RECURSIVE SumSold(_)
SumSold(rows) ==
    IF rows = <<>> THEN 0 ELSE Head(rows).sold + SumSold(Tail(rows))

\* the year datetime.now() may report during a session
ClockYears == {2024, 2025}

(***************************************************************************)
(* Messages: the strings the operations return, by their template and the  *)
(* values formatted into it                                                *)
(***************************************************************************)
Msg(tag) == [tag |-> tag, item |-> None, nums |-> <<>>, list |-> <<>>,
             dates |-> <<>>, text |-> "", more |-> FALSE, inner |-> <<>>]

\* what a call produced: the value returned, or the exception raised
Returned(m) == [exc |-> "", val |-> m]
Raised(name) == [exc |-> name, val |-> Msg("")]

\* int(round(x)) for x given in tenths: Python rounds halves to the even integer
RoundTenths(t) ==
    LET q == t \div 10
        r == t % 10
    IN IF r < 5 THEN q
       ELSE IF r > 5 THEN q + 1
       ELSE IF q % 2 = 0 THEN q ELSE q + 1

(***************************************************************************)
(* predict.py                                                              *)
(***************************************************************************)
\* predict_sales(mapped_item_id, date_str); mfile and dfile are the states of
\* the model and data files, pred is what model.predict gives (None: it raises)
predict_sales(item, ds, mfile, dfile, pred) ==
    IF mfile = "missing" THEN Returned([Msg("Error: Required file not found") EXCEPT !.text = "model"])
    ELSE IF dfile = "missing" THEN Returned([Msg("Error: Required file not found") EXCEPT !.text = "data"])
    ELSE IF mfile = "corrupt" \/ dfile = "corrupt" THEN Returned(Msg("An error occurred during file loading"))
    ELSE IF ~StrptimeOk(ds) THEN Returned(Msg("Error: Invalid date format"))
    ELSE LET target_row == SelectSeq(Data, LAMBDA r : r.item = item /\ r.date = StrptimeValue(ds))
         IN IF target_row = <<>>
            THEN Returned([Msg("No historical data found") EXCEPT !.item = Some(item), !.dates = <<ds>>])
            ELSE IF pred = None THEN Raised("model.predict")
            ELSE Returned([Msg("Actual, Predicted") EXCEPT
                              !.nums = <<target_row[1].sold, RoundTenths(pred[1])>>])

(***************************************************************************)
(* find_most_sold_item                                                     *)
(***************************************************************************)
ItemsOf(rows) == {rows[i].item : i \in DOMAIN rows}
ItemTotal(rows, item) == SumSold(SelectSeq(rows, LAMBDA r : r.item = item))

RECURSIVE Rankings(_, _)
\* the orders sort_values(ascending=False) may give the per-item totals: the
\* totals are non-increasing, and the order of equal totals is not specified
Rankings(rows, items) ==
    IF items = {} THEN {<<>>}
    ELSE LET top == {i \in items : \A j \in items : ItemTotal(rows, i) >= ItemTotal(rows, j)}
         IN UNION {{<<i>> \o rest : rest \in Rankings(rows, items \ {i})} : i \in top}

\* a faulty variant of Head5: the whole ranking is listed
HeadAll(seq) == seq

\* sales_by_item.head(5)
Head5(seq) == SubSeq(seq, 1, IF Len(seq) < TopN THEN Len(seq) ELSE TopN)

\* the set of results find_most_sold_item(period, month, year) may return
find_most_sold_item(dfv, month, year) ==
    IF dfv = None THEN {Msg("Data not available for analysis.")}
    ELSE LET byMonth == IF TruthyInt(month)
                        THEN SelectSeq(dfv[1], LAMBDA r : r.date[2] = month[1])
                        ELSE dfv[1]
             df_filtered == IF TruthyInt(year)
                            THEN SelectSeq(byMonth, LAMBDA r : r.date[1] = year[1])
                            ELSE byMonth
         IN IF df_filtered = <<>> THEN {Msg("No data found for the specified period.")}
            ELSE {[Msg("Most Sold Item") EXCEPT
                      !.item = Some(rank[1]),
                      !.nums = <<ItemTotal(df_filtered, rank[1])>>
                                  \o (IF month = Some(5) /\ TruthyInt(year) THEN <<year[1]>> ELSE <<>>),
                      !.list = [k \in DOMAIN Head5(rank) |-> <<rank[k], ItemTotal(df_filtered, rank[k])>>],
                      !.text = IF month = Some(5) /\ TruthyInt(year) THEN "May {year}" ELSE "the specified period"]
                  : rank \in Rankings(df_filtered, ItemsOf(df_filtered))}

(***************************************************************************)
(* get_sales_summary                                                       *)
(***************************************************************************)
\* pd.to_datetime(date): the calendar date read, or None when it raises.  A
\* year-first string is read year-month-day; a string ending in a four-digit
\* year is read month first, and day first only when the first field is no month
ToDatetime(ds) ==
    IF Len(ds.f) # 3 THEN None
    ELSE IF ds.f[1][2] = 4
    THEN (IF ds.f[2][1] \in 1..12 /\ ds.f[3][1] \in 1..DaysInMonth(ds.f[1][1], ds.f[2][1])
          THEN Some(<<ds.f[1][1], ds.f[2][1], ds.f[3][1]>>) ELSE None)
    ELSE IF ds.f[3][2] = 4
    THEN (IF ds.f[1][1] \in 1..12 /\ ds.f[2][1] \in 1..DaysInMonth(ds.f[3][1], ds.f[1][1])
          THEN Some(<<ds.f[3][1], ds.f[1][1], ds.f[2][1]>>)
          ELSE IF ds.f[2][1] \in 1..12 /\ ds.f[1][1] \in 1..DaysInMonth(ds.f[3][1], ds.f[2][1])
          THEN Some(<<ds.f[3][1], ds.f[2][1], ds.f[1][1]>>)
          ELSE None)
    ELSE None

MaxSold(rows) == MaxOf({rows[i].sold : i \in DOMAIN rows})
MinSold(rows) == MinOf({rows[i].sold : i \in DOMAIN rows})

\* the mean in tenths, as f"{avg_sales:.1f}" prints it (nearest tenth)
MeanTenths(rows) == (20 * SumSold(rows) + Len(rows)) \div (2 * Len(rows))

\* get_sales_summary(item_id, dates); dates is None or a list of date strings
get_sales_summary(dfv, item_id, dates) ==
    IF dfv = None THEN Msg("Data not available for analysis.")
    ELSE LET byItem == IF TruthyInt(item_id)
                       THEN SelectSeq(dfv[1], LAMBDA r : r.item = item_id[1])
                       ELSE dfv[1]
             raises == TruthySeq(dates) /\ \E i \in DOMAIN dates[1] : ToDatetime(dates[1][i]) = None
             date_objects == {ToDatetime(dates[1][i])[1] : i \in DOMAIN dates[1]}
             df_filtered == IF TruthySeq(dates)
                            THEN SelectSeq(byItem, LAMBDA r : r.date \in date_objects)
                            ELSE byItem
         IN IF raises THEN Msg("Error analyzing sales data")
            ELSE IF df_filtered = <<>> THEN Msg("No data found for the specified criteria.")
            ELSE [Msg("Sales Summary") EXCEPT
                     !.item = IF TruthyInt(item_id) THEN item_id ELSE None,
                     !.dates = IF TruthySeq(dates) /\ Len(dates[1]) <= 5 THEN dates[1] ELSE <<>>,
                     !.nums = <<SumSold(df_filtered), MeanTenths(df_filtered),
                                MaxSold(df_filtered), MinSold(df_filtered),
                                IF TruthySeq(dates) /\ Len(dates[1]) > 5 THEN Len(dates[1]) ELSE 0>>]

(***************************************************************************)
(* generate_response                                                       *)
(***************************************************************************)
\* render is "ok" (the rendering collaborator answered with a text of its own)
\* or "fail" (the call raised, and the except branch builds the text)
generate_response(prediction_result, render) ==
    IF render = "ok" THEN Msg("rendered by the collaborator")
    ELSE [Msg("Here are your prediction results") EXCEPT !.inner = <<prediction_result>>]

(***************************************************************************)
(* handle_query                                                            *)
(***************************************************************************)
\* what handle_query gives its caller: a text, None, or an exception
RetText(m) == [kind |-> "text", msg |-> m]
RetNone == [kind |-> "none", msg |-> Msg("")]
RetRaise(name) == [kind |-> "raise", msg |-> [Msg("") EXCEPT !.text = name]]

\* a call handle_query made to an operation or a collaborator
Call(op, item_id, dates, month, year) ==
    [op |-> op, item_id |-> item_id, dates |-> dates, month |-> month, year |-> year]

\* a faulty variant of Turn: the rendered response is stored as the result
TurnResultRendered(query, parameters, result, response) ==
    [query |-> query, parameters |-> parameters, result |-> response, response |-> response]

\* the entry appended to self.conversation_history
Turn(query, parameters, result, response) ==
    [query |-> query, parameters |-> parameters, result |-> result, response |-> response]

\* the outcome of one handle_query: the value for the caller, the calls made in
\* order, and the turns appended to the history
Outcome(ret, calls, turns) == [ret |-> ret, calls |-> calls, turns |-> turns]

GenericClarification == "I need more information. Please specify your request clearly."

\* the gate's comparison raises TypeError when confidence is None
GateRaises(p) == DictGet(p, "confidence", Some(DefaultConfidence)) = None

\* a faulty variant of GatedOut: the threshold itself is gated in, one step lower
GatedOutBelow49(p) ==
    \/ DictGet(p, "confidence", Some(DefaultConfidence))[1] < CONFIDENCE_THRESHOLD - 1
    \/ TruthySeq(DictGet(p, "missing_info", None))

\* parameters.get('confidence', 0) < 0.5 or parameters.get('missing_info')
GatedOut(p) ==
    \/ DictGet(p, "confidence", Some(DefaultConfidence))[1] < CONFIDENCE_THRESHOLD
    \/ TruthySeq(DictGet(p, "missing_info", None))

\* return parameters.get('clarification_needed', <generic text>)
ClarificationReturn(p) ==
    LET c == DictGet(p, "clarification_needed", Some(GenericClarification))
    IN IF c = None THEN RetNone ELSE RetText([Msg("clarification") EXCEPT !.text = c[1]])

\* the except branch around the dispatch
ProcessingError(name) ==
    RetText([Msg("I encountered an error while processing your request") EXCEPT !.text = name])

\* [f"{year}-{month:02d}-{day:02d}" for day in range(1, days_in_month + 1)]
MonthDates(y, m) == [d \in 1..DaysInMonth(y, m) |-> FormatDate(y, m, d)]

\* parameters.get('year', datetime.now().year)
YearOf(p, now) == DictGet(p, "year", Some(now))

MostSoldBranch(p, now, dfv) ==
    LET month == DictGet(p, "month", None)
        year == YearOf(p, now)
    IN {Outcome(RetText(m), <<Call("find_most_sold_item", None, None, month, year)>>, <<>>)
          : m \in find_most_sold_item(dfv, month, year)}

SummaryBranch(p, now, dfv) ==
    LET item_id == DictGet(p, "item_id", None)
        month == DictGet(p, "month", None)
        year == YearOf(p, now)
        date == DictGet(p, "date", None)
    IN IF TruthyInt(month) /\ TruthyInt(year) /\ month[1] \notin 1..12
       THEN {Outcome(ProcessingError("IllegalMonthError"), <<>>, <<>>)}
       ELSE LET dates == IF TruthyInt(month) /\ TruthyInt(year)
                         THEN Some(MonthDates(year[1], month[1]))
                         ELSE IF date # None /\ date[1] # Text("") THEN Some(<<date[1]>>)
                         ELSE None
            IN {Outcome(RetText(get_sales_summary(dfv, item_id, dates)),
                        <<Call("get_sales_summary", item_id, dates, None, None)>>, <<>>)}

AnalysisBranch(p, now, dfv) ==
    LET item_id == DictGet(p, "item_id", None)
        month == DictGet(p, "month", None)
        year == YearOf(p, now)
    IN IF TruthyInt(month) /\ TruthyInt(year)
       THEN IF month[1] \notin 1..12
            THEN {Outcome(ProcessingError("IllegalMonthError"), <<>>, <<>>)}
            ELSE LET dates == Some(MonthDates(year[1], month[1]))
                 IN {Outcome(RetText(get_sales_summary(dfv, item_id, dates)),
                             <<Call("get_sales_summary", item_id, dates, None, None)>>, <<>>)}
       ELSE {Outcome(RetText(Msg("Please specify a time period for analysis.")), <<>>, <<>>)}

\* item_id not in self.available_items
ItemUnavailable(item_id, avail) ==
    item_id = None \/ \A i \in DOMAIN avail : avail[i] # item_id[1]

\* a faulty variant of ItemNotAvailableMsg: the whole list is printed
ItemNotAvailableMsgAll(item_id, avail) ==
    [Msg("Item ID is not available") EXCEPT
        !.item = item_id, !.list = avail, !.more = Len(avail) > ItemListLimit]

\* f"Item ID {item_id} is not available. Available items: {first ten}{'...' if more}"
ItemNotAvailableMsg(item_id, avail) ==
    [Msg("Item ID is not available") EXCEPT
        !.item = item_id,
        !.list = SubSeq(avail, 1, IF Len(avail) < ItemListLimit THEN Len(avail) ELSE ItemListLimit),
        !.more = Len(avail) > ItemListLimit]

PredictionBranch(query, p, env, avail, mfile, dfile) ==
    LET item_id == DictGet(p, "item_id", None)
        date == DictGet(p, "date", None)
    IN IF ItemUnavailable(item_id, avail)
       THEN {Outcome(RetText(ItemNotAvailableMsg(item_id, avail)), <<>>, <<>>)}
       ELSE IF date = None \/ date[1] = Text("")
       THEN {Outcome(RetText(Msg("Please specify a date for the prediction.")), <<>>, <<>>)}
       ELSE IF ~StrptimeOk(date[1])
       THEN {Outcome(RetText(Msg("Invalid date format. Please use YYYY-MM-DD format.")), <<>>, <<>>)}
       ELSE LET predicted == predict_sales(item_id[1], date[1], mfile, dfile, env.pred)
                pcall == Call("predict_sales", item_id, Some(<<date[1]>>), None, None)
            IN IF predicted.exc # ""
               THEN {Outcome(ProcessingError(predicted.exc), <<pcall>>, <<>>)}
               ELSE LET response == generate_response(predicted.val, env.render)
                    IN {Outcome(RetText(response),
                                <<pcall, Call("generate_response", item_id, Some(<<date[1]>>), None, None)>>,
                                <<Turn(query, p, predicted.val, response)>>)}

\* the dispatch on query_type, inside the try block
Dispatch(query, p, env, dfv, avail, mfile, dfile) ==
    LET query_type == DictGet(p, "query_type", Some("prediction"))
    IN IF query_type = Some("most_sold") THEN MostSoldBranch(p, env.now, dfv)
       ELSE IF query_type = Some("summary") THEN SummaryBranch(p, env.now, dfv)
       ELSE IF query_type = Some("analysis") THEN AnalysisBranch(p, env.now, dfv)
       ELSE PredictionBranch(query, p, env, avail, mfile, dfile)

\* the set of outcomes of handle_query(query) when extraction gave the value v
HandleOutcomes(query, v, env, dfv, avail, mfile, dfile) ==
    IF v.t # "dict" THEN {Outcome(RetRaise("AttributeError"), <<>>, <<>>)}
    ELSE IF GateRaises(v.d) THEN {Outcome(RetRaise("TypeError"), <<>>, <<>>)}
    ELSE IF GatedOut(v.d) THEN {Outcome(ClarificationReturn(v.d), <<>>, <<>>)}
    ELSE Dispatch(query, v.d, env, dfv, avail, mfile, dfile)

(***************************************************************************)
(* _load_data_context                                                      *)
(***************************************************************************)
FileStates == {"ok", "missing", "corrupt"}

DateLE(a, b) ==
    \/ a[1] < b[1]
    \/ a[1] = b[1] /\ a[2] < b[2]
    \/ a[1] = b[1] /\ a[2] = b[2] /\ a[3] <= b[3]

DatesOf(rows) == {rows[i].date : i \in DOMAIN rows}
MinDate(rows) == CHOOSE a \in DatesOf(rows) : \A b \in DatesOf(rows) : DateLE(a, b)
MaxDate(rows) == CHOOSE a \in DatesOf(rows) : \A b \in DatesOf(rows) : DateLE(b, a)

RECURSIVE UniqueInOrder(_, _)
\* df['ITEMID_Mapped'].unique().tolist(): the item ids in order of first appearance
UniqueInOrder(rows, seen) ==
    IF rows = <<>> THEN <<>>
    ELSE IF Head(rows).item \in seen THEN UniqueInOrder(Tail(rows), seen)
    ELSE <<Head(rows).item>> \o UniqueInOrder(Tail(rows), seen \cup {Head(rows).item})

\* a faulty variant of load_data_context: the list of items is not sorted
load_data_context_unsorted(dfile) ==
    IF dfile = "ok"
    THEN [df |-> Some(Data),
          available_items |-> UniqueInOrder(Data, {}),
          date_range |-> [min_date |-> FormatDate(2020, 1, 1), max_date |-> FormatDate(2024, 12, 31)]]
    ELSE [df |-> None,
          available_items |-> <<>>,
          date_range |-> [min_date |-> FormatDate(2020, 1, 1), max_date |-> FormatDate(2024, 12, 31)]]

\* a faulty variant of load_data_context: the fallback keeps a list of items
load_data_context_items_kept(dfile) ==
    [df |-> IF dfile = "ok" THEN Some(Data) ELSE None,
     available_items |-> SortedSeq(ItemsOf(Data)),
     date_range |-> [min_date |-> FormatDate(2020, 1, 1), max_date |-> FormatDate(2024, 12, 31)]]

\* the fields _load_data_context sets; reading the file raises unless it is "ok"
load_data_context(dfile) ==
    IF dfile = "ok"
    THEN [df |-> Some(Data),
          available_items |-> SortedSeq(ItemsOf(Data)),
          date_range |-> [min_date |-> FormatDate(MinDate(Data)[1], MinDate(Data)[2], MinDate(Data)[3]),
                          max_date |-> FormatDate(MaxDate(Data)[1], MaxDate(Data)[2], MaxDate(Data)[3])]]
    ELSE [df |-> None,
          available_items |-> <<>>,
          date_range |-> [min_date |-> FormatDate(2020, 1, 1), max_date |-> FormatDate(2024, 12, 31)]]

(***************************************************************************)
(* The inputs of a query: the collaborator's reply and the environment     *)
(***************************************************************************)
\* a key of the reply's record: left out, or present with a value
Absent == <<>>
Present(x) == <<x>>

MkBody(qt, it, dt, mo, yr, cf, mi, cl) ==
    LET ch == [query_type |-> qt, item_id |-> it, date |-> dt, month |-> mo, year |-> yr,
               confidence |-> cf, missing_info |-> mi, clarification_needed |-> cl]
    IN [k \in {k \in DOMAIN ch : ch[k] # Absent} |-> ch[k][1]]

D_2024_05_01 == FormatDate(2024, 5, 1)
D_2024_5_1 == NumStr(<< <<2024, 4>>, <<5, 1>>, <<1, 1>> >>)
D_4_5_2024 == NumStr(<< <<4, 1>>, <<5, 1>>, <<2024, 4>> >>)
D_2024_02_30 == FormatDate(2024, 2, 30)
D_2024_05_04 == FormatDate(2024, 5, 4)

PassConf == Present(Some(CONFIDENCE_THRESHOLD))
NoMissing == Present(Some(<<>>))

ConfChoices == {Absent, Present(None), Present(Some(0)),
                Present(Some(CONFIDENCE_THRESHOLD - 1)), PassConf}
MissingChoices == {Absent, NoMissing, Present(Some(<<"date">>))}
ClarChoices == {Absent, Present(None), Present(Some("Which item do you mean?"))}
YearChoices == {Absent, Present(None), Present(Some(2023)), Present(Some(2024))}

\* records that vary the gate's fields
GateBodies ==
    {MkBody(Present(Some("summary")), Present(Some(3)), Present(Some(D_2024_05_01)),
            Present(Some(5)), Present(Some(2024)), cf, mi, cl)
        : cf \in ConfChoices, mi \in MissingChoices, cl \in ClarChoices}
    \cup
    {MkBody(Present(Some("prediction")), Present(Some(3)), Present(Some(D_2024_05_01)),
            Absent, Absent, cf, mi, Absent)
        : cf \in ConfChoices, mi \in {NoMissing, Present(Some(<<"date">>))}}

\* gate-passing records of the prediction type, and of no known type
PredictionBodies ==
    {MkBody(Present(Some("prediction")), it, dt, Absent, Absent, PassConf, NoMissing, Absent)
        : it \in {Absent, Present(None), Present(Some(3)), Present(Some(99))},
          dt \in {Absent, Present(None), Present(Some(Text(""))), Present(Some(Text("tomorrow"))),
                  Present(Some(D_2024_05_01)), Present(Some(D_2024_5_1)),
                  Present(Some(D_2024_05_04)),
                  Present(Some(D_4_5_2024)), Present(Some(D_2024_02_30))}}
    \cup
    {MkBody(qt, it, Present(Some(D_2024_05_01)), Absent, Absent, PassConf, NoMissing, Absent)
        : qt \in {Absent, Present(None), Present(Some("forecast"))},
          it \in {Present(Some(99))}}
    \cup
    {MkBody(Absent, Present(Some(3)), Present(Some(D_2024_05_01)), Absent, Absent,
            PassConf, NoMissing, Absent)}

SummaryBodies ==
    {MkBody(Present(Some("summary")), it, dt, mo, yr, PassConf, NoMissing, Absent)
        : it \in {Absent, Present(Some(0)), Present(Some(3)), Present(Some(99))},
          dt \in {Absent, Present(Some(D_2024_05_01)), Present(Some(D_4_5_2024)),
                  Present(Some(Text("tomorrow")))},
          mo \in {Present(None), Present(Some(2)), Present(Some(13))},
          yr \in {Absent, Present(None), Present(Some(2024))}}

AnalysisBodies ==
    {MkBody(Present(Some("analysis")), it, Absent, mo, yr, PassConf, NoMissing, Absent)
        : it \in {Present(Some(3)), Present(Some(99))},
          mo \in {Absent, Present(None), Present(Some(0)), Present(Some(2)), Present(Some(5)),
                  Present(Some(13))},
          yr \in YearChoices}

MostSoldBodies ==
    {MkBody(Present(Some("most_sold")), Absent, Absent, mo, yr, PassConf, NoMissing, Absent)
        : mo \in {Absent, Present(None), Present(Some(2)), Present(Some(5))},
          yr \in YearChoices}

\* summary records for an item whose rows all have quantity 0
ZeroSalesBodies ==
    {MkBody(Present(Some("summary")), Present(Some(9)), dt, Present(None), Present(Some(2024)),
            PassConf, NoMissing, Absent)
        : dt \in {Present(Some(D_2024_05_01)), Present(Some(D_2024_05_04))}}

Bodies == GateBodies \cup PredictionBodies \cup SummaryBodies \cup AnalysisBodies \cup MostSoldBodies
          \cup ZeroSalesBodies

\* the record of the replies that wrap it in prose
WrappedBody ==
    MkBody(Present(Some("most_sold")), Absent, Absent, Present(Some(5)), Present(Some(2024)),
           PassConf, NoMissing, Absent)

\* reply texts other than the bare object
OtherTexts ==
    { <<>>, <<"w">>, <<"null">>, <<"{", "}">>, <<"{", "w">>, <<"{", "w", "}">>,
      <<"w", "{", "b", "}">>, <<"{", "b", "}", "w">>, <<"w", "{", "b", "}", "w">>,
      <<"}", "w", "{", "b", "}">>, <<"{", "b", "}", "w", "{">>,
      <<"{", "b", "}", "w", "}">>, <<"w", "{", "b", "}", "w", "{", "w", "}">>,
      <<"{", "b", "}", "w", "{", "b", "}">> }

Resp(kind, text, body) == [kind |-> kind, text |-> text, body |-> body]

Responses ==
    {Resp("api_error", <<>>, <<>>), Resp("no_content", <<>>, <<>>)}
    \cup {Resp("text", <<"{", "b", "}">>, b) : b \in Bodies}
    \cup {Resp("text", t, WrappedBody) : t \in OtherTexts}

Queries == {"user query"}

\* the model's raw predictions in tenths (None: model.predict raises)
Predictions == {None, Some(415)}

\* the query type the dispatch reads in an extracted value
TypeOf(v) == IF v.t = "dict" THEN DictGet(v.d, "query_type", Some("prediction")) ELSE None

IsAnalytic(v) ==
    v.t = "dict" /\ TypeOf(v) \in {Some("most_sold"), Some("summary"), Some("analysis")}

\* the environment of one call, as far as the call reads it: the clock is read
\* when the record has no year, the model and the rendering collaborator in
\* the prediction branch
Envs(v) ==
    {[now |-> n, pred |-> pr, render |-> r]
        : n \in (IF IsAnalytic(v) /\ "year" \notin DOMAIN v.d THEN ClockYears ELSE {MinOf(ClockYears)}),
          pr \in (IF v.t = "dict" /\ ~IsAnalytic(v) THEN Predictions ELSE {None}),
          r \in (IF v.t = "dict" /\ ~IsAnalytic(v) THEN {"ok", "fail"} ELSE {"ok"})}

(***************************************************************************)
(* _parse_date_input                                                       *)
(*                                                                         *)
(* Its argument is a phrase, the sequence of its words, or a date string   *)
(* of digit fields; the empty string is the phrase of no words.            *)
(***************************************************************************)
PhraseIn(words) == [words |-> words, ds |-> Text("")]
DateIn(ds) == [words |-> <<>>, ds |-> ds]

\* the words of the phrases that hold the substring 'may', and '2024'
HoldsMay(word) == word \in {"may", "maybe"}
Holds2024(word) == word = "2024"
\* 'may' in date_str, '2024' in date_str
PhraseHoldsMay(words) == \E i \in DOMAIN words : HoldsMay(words[i])
PhraseHolds2024(words) == \E i \in DOMAIN words : Holds2024(words[i])

\* re.match(r'\d{1,2}-\d{1,2}-\d{4}', date_str): the pattern is matched at the
\* start of the string only, so a third field may be longer than four digits
\* and further fields may follow
MatchesDayMonthYear(ds) ==
    /\ Len(ds.f) >= 3
    /\ ds.f[1][2] \in {1, 2} /\ ds.f[2][2] \in {1, 2} /\ ds.f[3][2] >= 4

\* a faulty variant of DayMonthYearDate: the fields are read month-day-year
MonthDayYearDate(ds) ==
    NumStr(<< ds.f[3], <<ds.f[1][1], Max2(2, ds.f[1][2])>>, <<ds.f[2][1], Max2(2, ds.f[2][2])>> >>)

\* day, month, year = parts; f"{year}-{month.zfill(2)}-{day.zfill(2)}"
DayMonthYearDate(ds) ==
    NumStr(<< ds.f[3], <<ds.f[2][1], Max2(2, ds.f[2][2])>>, <<ds.f[1][1], Max2(2, ds.f[1][2])>> >>)

\* [f"{year}-05-{day:02d}" for day in range(1, 32)]
MayDates(year) == [day \in 1..31 |-> FormatDate(year, 5, day)]

\* _parse_date_input(date_str), with the year datetime.now() reports
parse_date_input(inp, now) ==
    IF inp.words = <<>> /\ inp.ds = Text("") THEN <<>>
    ELSE IF PhraseHoldsMay(inp.words)
    THEN MayDates(IF PhraseHolds2024(inp.words) THEN 2024 ELSE now)
    ELSE IF MatchesDayMonthYear(inp.ds) /\ Len(inp.ds.f) = 3
    THEN <<DayMonthYearDate(inp.ds)>>
    ELSE IF StrptimeOk(inp.ds)
    THEN <<FormatDate(StrptimeValue(inp.ds)[1], StrptimeValue(inp.ds)[2], StrptimeValue(inp.ds)[3])>>
    ELSE <<>>

\* the digit field of a number, written bare or zero-padded to two digits
Bare(n) == <<n, NumDigits(n)>>
Padded(n) == <<n, Max2(2, NumDigits(n))>>

ParseDays == {1, 4, 9, 10, 28, 29, 30, 31}
ParseMonths == {1, 2, 4, 5, 12, 13}
ParseYears == {2023, 2024}

\* the date strings given to _parse_date_input: day first and year first,
\* bare and padded, dates of the calendar and others
ParseDateStrings ==
    {NumStr(<<d, m, Bare(y)>>)
        : d \in UNION {{Bare(n), Padded(n)} : n \in ParseDays},
          m \in UNION {{Bare(n), Padded(n)} : n \in ParseMonths}, y \in ParseYears}
    \cup
    {NumStr(<<Bare(y), m, d>>)
        : d \in UNION {{Bare(n), Padded(n)} : n \in ParseDays},
          m \in UNION {{Bare(n), Padded(n)} : n \in ParseMonths}, y \in ParseYears}
    \cup
    { NumStr(<< <<4, 1>>, <<5, 1>>, <<20245, 5>> >>),
      NumStr(<< <<4, 1>>, <<5, 1>>, <<2024, 4>>, <<6, 1>> >>),
      NumStr(<< <<4, 1>>, <<5, 1>>, <<24, 2>> >>),
      NumStr(<< <<123, 3>>, <<5, 1>>, <<2024, 4>> >>),
      Text("tomorrow") }

\* the phrases given to _parse_date_input
ParsePhrases ==
    { <<>>, <<"may">>, <<"may", "2024">>, <<"may", "2023">>, <<"maybe">>,
      <<"whole", "may">>, <<"entire", "may", "2024">>, <<"all of", "may", "2023">>,
      <<"february">>, <<"february", "2024">>, <<"february", "2023">>,
      <<"whole", "february", "2024">>, <<"whole", "february", "2023">>,
      <<"entire", "april">>, <<"all of", "december", "2024">>, <<"whole">> }

ParseInputs == {DateIn(ds) : ds \in ParseDateStrings} \cup {PhraseIn(w) : w \in ParsePhrases}

NoParse == [called |-> FALSE, input |-> PhraseIn(<<>>), now |-> MinOf(ClockYears), out |-> <<>>]

(***************************************************************************)
(* The state machine                                                       *)
(***************************************************************************)
NoCall ==
    [called |-> FALSE, query |-> "", resp |-> Resp("api_error", <<>>, <<>>),
     env |-> [now |-> MinOf(ClockYears), pred |-> None, render |-> "ok"],
     parameters |-> DictVal(<<>>), calls |-> <<>>, ret |-> RetNone, before |-> <<>>]

\* __init__: the history is empty and _load_data_context has run
Init ==
    /\ data_file \in FileStates
    /\ model_file \in FileStates
    /\ df = load_data_context(data_file).df
    /\ available_items = load_data_context(data_file).available_items
    /\ date_range = load_data_context(data_file).date_range
    /\ conversation_history = <<>>
    /\ last = NoCall
    /\ parsed = NoParse

\* a faulty variant of HistoryAppend: a capacity is enforced by evicting the
\* oldest turns
HistoryAppendEvicting(history, turns) ==
    LET all == history \o turns
    IN IF Len(all) <= 1 THEN all ELSE SubSeq(all, Len(all), Len(all))

\* self.conversation_history.append({...}) for each turn the call records
HistoryAppend(history, turns) == history \o turns

\* handle_query(user_query), from the call to the return; the caller has
\* taken the previous call's outcome
handle_query ==
    /\ ~last.called
    /\ \E query \in Queries, resp \in Responses :
        LET v == extract_parameters(resp)
        IN \E env \in Envs(v) :
              \E o \in HandleOutcomes(query, v, env, df, available_items, model_file, data_file) :
                  /\ Len(conversation_history) + Len(o.turns) <= MaxHistory
                  /\ conversation_history' = HistoryAppend(conversation_history, o.turns)
                  /\ last' = [called |-> TRUE, query |-> query, resp |-> resp, env |-> env,
                              parameters |-> v, calls |-> o.calls, ret |-> o.ret,
                              before |-> conversation_history]
                  /\ UNCHANGED <<df, available_items, date_range, model_file, data_file, parsed>>

\* the chat loop of main(): the response is printed and the next input awaited
main_loop ==
    /\ last.called
    /\ last' = NoCall
    /\ UNCHANGED <<df, available_items, date_range, model_file, data_file, conversation_history,
                   parsed>>

Next == handle_query \/ main_loop

Spec == Init /\ [][Next]_vars

\* a session in which _parse_date_input is given one input
InitParse ==
    /\ Init
    /\ data_file = "ok" /\ model_file = "ok"

\* _parse_date_input(date_str), from the call to the return
call_parse_date_input ==
    /\ ~parsed.called
    /\ \E inp \in ParseInputs, now \in ClockYears :
          parsed' = [called |-> TRUE, input |-> inp, now |-> now, out |-> parse_date_input(inp, now)]
    /\ UNCHANGED <<df, available_items, date_range, model_file, data_file, conversation_history,
                   last>>

NextParse == call_parse_date_input

SpecParse == InitParse /\ [][NextParse]_vars

(***************************************************************************)
(* Properties                                                              *)
(***************************************************************************)
\* the record the last call extracted, when it is a dict
LastRecord == last.parameters.d
LastIsRecord == last.called /\ last.parameters.t = "dict"

\* the gate as the specification words it: confidence below 0.5 (a record
\* without the field counts as 0) or a non-empty missing_info
BelowThreshold(p) ==
    \/ "confidence" \notin DOMAIN p
    \/ p["confidence"] # None /\ p["confidence"][1] < CONFIDENCE_THRESHOLD
HasMissingInfo(p) ==
    "missing_info" \in DOMAIN p /\ p["missing_info"] # None /\ p["missing_info"][1] # <<>>
PassesGate(p) ==
    /\ "confidence" \in DOMAIN p /\ p["confidence"] # None
    /\ p["confidence"][1] >= CONFIDENCE_THRESHOLD
    /\ ~HasMissingInfo(p)

HistoryUnchanged == conversation_history = last.before
CallsTo(ops) == {i \in DOMAIN last.calls : last.calls[i].op \in ops}
LastType == DictGet(LastRecord, "query_type", None)

\* C1: a record whose confidence is below 0.5 (0.49 with empty missing_info and
\* a record without the field included) or whose missing_info is non-empty
\* makes handle_query call no operation and no collaborator, and leaves the
\* history as it was
C1_GatedRecordRunsNothing ==
    (LastIsRecord /\ (BelowThreshold(LastRecord) \/ HasMissingInfo(LastRecord)))
        => (last.calls = <<>> /\ HistoryUnchanged)

C1_Witness ==
    /\ LastIsRecord
    /\ DictGet(LastRecord, "confidence", None) = Some(CONFIDENCE_THRESHOLD - 1)
    /\ DictGet(LastRecord, "missing_info", None) = Some(<<>>)
    /\ LastType = Some("prediction")
    /\ last.calls = <<>>
    /\ Len(last.before) = 1 /\ HistoryUnchanged

\* C2: a gated-out record makes handle_query return a text: the record's
\* clarification_needed when it carries one, the generic message otherwise,
\* also when the field is present and null
C2_GatedReturnIsText ==
    (/\ LastIsRecord
     /\ ~("confidence" \in DOMAIN LastRecord /\ LastRecord["confidence"] = None)
     /\ (BelowThreshold(LastRecord) \/ HasMissingInfo(LastRecord)))
        => /\ last.ret.kind = "text"
           /\ last.ret.msg.text =
                 (IF DictGet(LastRecord, "clarification_needed", None) # None
                  THEN LastRecord["clarification_needed"][1]
                  ELSE GenericClarification)

\* a well-formed object is embedded in the text at positions i..j
ObjectAt(text, i, j) == SubSeq(text, i, j) \in { <<"{", "}">>, <<"{", "b", "}">> }
ObjectStarts(text) == {i \in 1..Len(text) : \E j \in i..Len(text) : ObjectAt(text, i, j)}
\* the dict of the first well-formed object embedded in the text
FirstObject(text, body) ==
    LET i == MinOf(ObjectStarts(text))
    IN IF ObjectAt(text, i, i + 1) THEN <<>> ELSE body

\* C3: when the collaborator call fails, or the reply holds no structured
\* object, extraction gives the fail-soft record, and handle_query returns
\* its clarification text, calls nothing and leaves the history as it was
C3_NoObjectFailsSoft ==
    (last.called /\ (last.resp.kind # "text" \/ ObjectStarts(last.resp.text) = {}))
        => /\ last.parameters = DictVal(FailSoftRecord)
           /\ FailSoftRecord["confidence"] = Some(0)
           /\ FailSoftRecord["query_type"] = Some("prediction")
           /\ FailSoftRecord["missing_info"] = Some(<<"item_id", "date">>)
           /\ last.ret.kind = "text"
           /\ last.ret.msg.text = FailSoftRecord["clarification_needed"][1]
           /\ last.calls = <<>>
           /\ HistoryUnchanged

\* C4: a reply that holds a well-formed object among prose, prose that may
\* hold braces or a second object, is extracted to the first such object
C4_FirstEmbeddedObjectExtracted ==
    (last.called /\ last.resp.kind = "text" /\ ObjectStarts(last.resp.text) # {})
        => last.parameters = DictVal(FirstObject(last.resp.text, last.resp.body))

InAvailable(item) == \E i \in DOMAIN available_items : available_items[i] = item

\* C5: no prediction, summary or analysis operation is called with an item id
\* that is not in available_items (stated for a session whose dataset loaded)
C5_OperationsGetAvailableItems ==
    (last.called /\ df # None) =>
        \A i \in CallsTo({"predict_sales", "get_sales_summary"}) :
            last.calls[i].item_id # None => InAvailable(last.calls[i].item_id[1])

\* the ids smaller than ItemListLimit others, in ascending order
SmallestItems ==
    LET all == {available_items[i] : i \in DOMAIN available_items}
    IN SortedSeq({x \in all : Cardinality({y \in all : y < x}) < ItemListLimit})

\* C6: a gate-passing prediction record whose item id is not available (or is
\* absent) is rejected: nothing is called, the history is as it was, and the
\* message lists at most 10 ids, the 10 smallest when there are more
C6_UnknownItemRejected ==
    (/\ LastIsRecord /\ PassesGate(LastRecord)
     /\ LastType = Some("prediction")
     /\ (DictGet(LastRecord, "item_id", None) = None \/ ~InAvailable(LastRecord["item_id"][1])))
        => /\ last.calls = <<>>
           /\ HistoryUnchanged
           /\ last.ret.kind = "text"
           /\ last.ret.msg.tag = "Item ID is not available"
           /\ Len(last.ret.msg.list) <= ItemListLimit
           /\ last.ret.msg.list = SmallestItems

C6_Witness ==
    /\ LastIsRecord /\ PassesGate(LastRecord)
    /\ LastType = Some("prediction")
    /\ DictGet(LastRecord, "item_id", None) = Some(99)
    /\ Len(available_items) > ItemListLimit
    /\ Len(last.ret.msg.list) = ItemListLimit
    /\ last.ret.msg.list[1] = 0
    /\ last.ret.msg.more
    /\ Len(last.before) = 1

\* C7: every date string handed to predict_sales or get_sales_summary is in
\* canonical zero-padded YYYY-MM-DD form (stated for a session whose dataset
\* and model loaded)
C7_OperationsGetCanonicalDates ==
    (last.called /\ df # None /\ model_file = "ok") =>
        \A i \in CallsTo({"predict_sales", "get_sales_summary"}) :
            last.calls[i].dates # None =>
                \A k \in DOMAIN last.calls[i].dates[1] : IsCanonical(last.calls[i].dates[1][k])

\* C8: a gate-passing summary record never makes handle_query call
\* get_sales_summary without a date filter (stated for a session whose dataset
\* loaded)
C8_SummaryHasDateFilter ==
    (LastIsRecord /\ df # None /\ PassesGate(LastRecord) /\ LastType = Some("summary"))
        => \A i \in CallsTo({"get_sales_summary"}) : last.calls[i].dates # None

\* the calendar's day count, by the rule of the Gregorian calendar
CalendarDays(y, m) ==
    LET leap == (y % 4 = 0 /\ y % 100 # 0) \/ (y % 400 = 0)
    IN << 31, IF leap THEN 29 ELSE 28, 31, 30, 31, 30, 31, 31, 30, 31, 30, 31 >>[m]

\* the year of the last call's record, the clock's when the record has none
LastYear == DictGet(LastRecord, "year", Some(last.env.now))
LastMonth == DictGet(LastRecord, "month", None)

\* C9: a gate-passing analysis record without a month or a year (absent, null
\* or 0) gives the "specify a period" text and calls nothing; with a month of
\* the calendar and a year, get_sales_summary is called once, over exactly the
\* calendar's days of that month; a month number outside 1..12 calls nothing
C9_AnalysisPeriod ==
    (LastIsRecord /\ PassesGate(LastRecord) /\ LastType = Some("analysis"))
        => IF LastMonth \in {None, Some(0)} \/ LastYear \in {None, Some(0)}
           THEN /\ last.ret = RetText(Msg("Please specify a time period for analysis."))
                /\ last.calls = <<>>
           ELSE IF LastMonth[1] \notin 1..12
           THEN last.calls = <<>>
           ELSE /\ Len(last.calls) = 1
                /\ last.calls[1].op = "get_sales_summary"
                /\ last.calls[1].dates # None
                /\ LET dates == last.calls[1].dates[1]
                   IN /\ Len(dates) = CalendarDays(LastYear[1], LastMonth[1])
                      /\ \A d \in DOMAIN dates :
                            dates[d] = NumStr(<< <<LastYear[1], 4>>, <<LastMonth[1], 2>>, <<d, 2>> >>)

C9_Witness ==
    /\ LastIsRecord /\ PassesGate(LastRecord) /\ LastType = Some("analysis")
    /\ LastMonth = Some(2) /\ LastYear = Some(2024)
    /\ Len(last.calls) = 1
    /\ Len(last.calls[1].dates[1]) = 29

C9_WitnessNoPeriod ==
    /\ LastIsRecord /\ PassesGate(LastRecord) /\ LastType = Some("analysis")
    /\ LastMonth = Some(2) /\ LastYear = None
    /\ last.calls = <<>>

FailedPredictions ==
    {"Error: Required file not found", "An error occurred during file loading",
     "Error: Invalid date format"}

\* C10: a call changes the history only when it is a prediction whose
\* execution succeeded: analytic queries, gated queries, validation failures
\* and predictions that report missing files, a load error or an invalid date
\* leave it as it was
C10_OnlySuccessfulPredictionsRecorded ==
    (last.called /\ ~HistoryUnchanged)
        => /\ ~IsAnalytic(last.parameters)
           /\ Len(conversation_history) = Len(last.before) + 1
           /\ LastType = Some("prediction") =>
                 conversation_history[Len(conversation_history)].result.tag \notin FailedPredictions

\* the last call reached the append of its turn (it called both collaborators
\* of the prediction branch)
LastRecorded == last.called /\ CallsTo({"generate_response"}) # {}

\* C11: the history is append-only and without capacity: every step keeps each
\* earlier turn unmodified at its position, a call that records a prediction
\* adds exactly one turn, at the end, holding that call's query, and any
\* other step adds none, so that n recorded predictions give n entries
C11_HistoryAppendOnly ==
    [][/\ Len(conversation_history') >= Len(conversation_history)
       /\ SubSeq(conversation_history', 1, Len(conversation_history)) = conversation_history
       /\ Len(conversation_history') =
             Len(conversation_history) + (IF LastRecorded' THEN 1 ELSE 0)
       /\ LastRecorded' =>
             /\ conversation_history'[Len(conversation_history')].query = last'.query
             /\ conversation_history'[Len(conversation_history')].parameters = last'.parameters.d]_vars

C11_Witness ==
    /\ LastRecorded
    /\ Len(last.before) = MaxHistory - 1
    /\ Len(conversation_history) = MaxHistory
    /\ SubSeq(conversation_history, 1, MaxHistory - 1) = last.before

\* the last call's record is the prediction of item 3 on 2024-05-01, whose row
\* of the loaded dataset has total_sold = 42, and it passes the gate
PredictItem3 ==
    /\ LastIsRecord /\ PassesGate(LastRecord)
    /\ LastType = Some("prediction")
    /\ DictGet(LastRecord, "item_id", None) = Some(3)
    /\ DictGet(LastRecord, "date", None) = Some(NumStr(<< <<2024, 4>>, <<5, 2>>, <<1, 2>> >>))
    /\ df # None
    /\ \E i \in DOMAIN df[1] : df[1][i] = [item |-> 3, date |-> <<2024, 5, 1>>, sold |-> 42]

\* the regression collaborator loads its files and gives a prediction
PredictorAnswers == model_file = "ok" /\ data_file = "ok" /\ last.env.pred # None

LastTurn == conversation_history[Len(conversation_history)]

\* n is the integer nearest to t tenths, the even one of two equally near
NearestInteger(n, t) ==
    /\ 10 * n - t \in -5..5
    /\ (10 * n - t \in {-5, 5}) => n % 2 = 0

\* the text m holds the raw result "Actual: 42, Predicted: <n>"
HoldsActual42(m) ==
    \/ m.tag = "Actual, Predicted" /\ m.nums[1] = 42
    \/ /\ m.tag = "Here are your prediction results"
       /\ m.inner[1].tag = "Actual, Predicted" /\ m.inner[1].nums[1] = 42

\* C12 as stated: for the gate-passing prediction of item 3 on 2024-05-01
\* (actual 42), the string handle_query returns holds "Actual: 42" with the
\* rounded prediction, and one turn is appended with the extracted record and
\* the raw prediction string (stated with the regression collaborator
\* answering)
C12_ReturnHoldsActual ==
    (PredictItem3 /\ PredictorAnswers)
        => /\ last.ret.kind = "text" /\ HoldsActual42(last.ret.msg)
           /\ Len(conversation_history) = Len(last.before) + 1
           /\ LastTurn.parameters = LastRecord
           /\ LastTurn.result.tag = "Actual, Predicted"

\* C12 amended: when the regression collaborator answers, one turn is appended
\* whose parameters are the extracted record, whose result is the raw string
\* "Actual: 42, Predicted: <nearest integer>" and whose response is the text
\* handle_query returns; that text is the rendering collaborator's, and holds
\* the raw string when the rendering call fails
C12_TurnHoldsActual ==
    (PredictItem3 /\ PredictorAnswers)
        => /\ conversation_history = last.before \o <<LastTurn>>
           /\ LastTurn.query = last.query
           /\ LastTurn.parameters = LastRecord
           /\ LastTurn.result.tag = "Actual, Predicted"
           /\ LastTurn.result.nums[1] = 42
           /\ NearestInteger(LastTurn.result.nums[2], last.env.pred[1])
           /\ last.ret = RetText(LastTurn.response)
           /\ last.env.render = "fail" =>
                 /\ HoldsActual42(last.ret.msg)
                 /\ last.ret.msg.inner = <<LastTurn.result>>

C12_Witness ==
    /\ PredictItem3 /\ PredictorAnswers
    /\ last.env.render = "ok"
    /\ Len(last.before) = 1
    /\ LastTurn.result.nums = <<42, 42>>

\* the rows of the loaded dataset in month m of year y
RowsOfMonth(y, m) == SelectSeq(df[1], LAMBDA r : r.date[1] = y /\ r.date[2] = m)

\* C13: a gate-passing most_sold record with month 5 and no year (the field
\* absent, or present and null) is ranked over the rows of May of the clock's
\* year only: every listed item has a row there and is listed with its total
\* over those rows
C13_MostSoldDefaultsToCurrentYear ==
    (/\ LastIsRecord /\ PassesGate(LastRecord) /\ df # None
     /\ LastType = Some("most_sold") /\ LastMonth = Some(5)
     /\ DictGet(LastRecord, "year", None) = None)
        => LET rows == RowsOfMonth(last.env.now, 5)
           IN IF rows = <<>>
              THEN last.ret.msg.tag = "No data found for the specified period."
              ELSE /\ last.ret.msg.tag = "Most Sold Item"
                   /\ \A k \in DOMAIN last.ret.msg.list :
                         /\ last.ret.msg.list[k][1] \in ItemsOf(rows)
                         /\ last.ret.msg.list[k][2] = ItemTotal(rows, last.ret.msg.list[k][1])

\* the last call ran find_most_sold_item and it reported a ranking
LastRanked ==
    /\ last.called
    /\ CallsTo({"find_most_sold_item"}) # {}
    /\ last.ret.kind = "text" /\ last.ret.msg.tag = "Most Sold Item"

\* C14: the reported ranking follows the total order (total descending, item
\* id ascending): of two listed items with equal totals the lower id comes
\* first, and the reported top item is the lowest id among the items with the
\* maximal total
C14_RankingIsTotalOrder ==
    LastRanked =>
        LET list == last.ret.msg.list
        IN /\ \A k, l \in DOMAIN list :
                 k < l => \/ list[k][2] > list[l][2]
                          \/ list[k][2] = list[l][2] /\ list[k][1] < list[l][1]
           /\ \A k \in DOMAIN list :
                 list[k][2] = last.ret.msg.nums[1] => last.ret.msg.item[1] <= list[k][1]

\* the rows find_most_sold_item's filter keeps, by the arguments of the call:
\* a month or year of None or 0 does not filter
MatchingRows(c) ==
    SelectSeq(df[1], LAMBDA r :
        /\ (c.month \in {None, Some(0)} \/ r.date[2] = c.month[1])
        /\ (c.year \in {None, Some(0)} \/ r.date[1] = c.year[1]))

RECURSIVE SumTotals(_)
SumTotals(list) == IF list = <<>> THEN 0 ELSE Head(list)[2] + SumTotals(Tail(list))

\* C15: when the filter of a find_most_sold_item call matches a row, the
\* result lists min(5, number of distinct items of the period) distinct
\* items, each with its total over the period; the first entry is the
\* reported top item with the reported total, the totals do not increase down
\* the list and no unlisted item has more than a listed one, and the listed
\* totals sum to at most the quantity sold in the period
C15_TopFiveList ==
    (last.called /\ df # None /\ CallsTo({"find_most_sold_item"}) # {}
     /\ MatchingRows(last.calls[1]) # <<>>)
        => LET rows == MatchingRows(last.calls[1])
               list == last.ret.msg.list
               n == Cardinality(ItemsOf(rows))
           IN /\ LastRanked
              /\ Len(list) = (IF n < 5 THEN n ELSE 5)
              /\ \A k \in DOMAIN list :
                    /\ list[k][1] \in ItemsOf(rows)
                    /\ list[k][2] = ItemTotal(rows, list[k][1])
                    /\ \A l \in DOMAIN list : k < l =>
                          list[k][2] >= list[l][2] /\ list[k][1] # list[l][1]
                    /\ \A i \in ItemsOf(rows) :
                          (\A l \in DOMAIN list : list[l][1] # i) => ItemTotal(rows, i) <= list[k][2]
              /\ last.ret.msg.item = Some(list[1][1])
              /\ last.ret.msg.nums[1] = list[1][2]
              /\ SumTotals(list) <= SumSold(rows)

C15_Witness ==
    /\ LastRanked /\ df # None
    /\ last.calls[1].month = Some(5) /\ last.calls[1].year = Some(2024)
    /\ Cardinality(ItemsOf(MatchingRows(last.calls[1]))) > 5
    /\ Len(last.ret.msg.list) = 5
    /\ SumTotals(last.ret.msg.list) < SumSold(MatchingRows(last.calls[1]))

C15_WitnessFewItems ==
    /\ LastRanked /\ df # None
    /\ last.calls[1].month = Some(2)
    /\ Len(last.ret.msg.list) = 1

\* the canonical string of the calendar date y-m-d
Canon(y, m, d) == NumStr(<< <<y, 4>>, <<m, 2>>, <<d, 2>> >>)

\* a digit field written bare or zero-padded to two digits
BareOrPadded(field) ==
    \/ field[2] = 2 /\ field[1] < 100
    \/ field[2] = 1 /\ field[1] < 10

\* ds is the D-M-YYYY phrasing of a date of the calendar
IsDayFirstDate(ds) ==
    /\ Len(ds.f) = 3
    /\ BareOrPadded(ds.f[1]) /\ BareOrPadded(ds.f[2])
    /\ ds.f[3][2] = 4 /\ ds.f[3][1] >= 1000
    /\ ds.f[2][1] \in 1..12
    /\ ds.f[1][1] \in 1..CalendarDays(ds.f[3][1], ds.f[2][1])

\* ds is the strict YYYY-MM-DD phrasing of a date of the calendar
IsStrictDate(ds) ==
    /\ Len(ds.f) = 3
    /\ ds.f[1][2] = 4 /\ ds.f[2][2] = 2 /\ ds.f[3][2] = 2
    /\ ds.f[1][1] >= 1000
    /\ ds.f[2][1] \in 1..12
    /\ ds.f[3][1] \in 1..CalendarDays(ds.f[1][1], ds.f[2][1])

\* C16: _parse_date_input gives, for the D-M-YYYY phrasing of a calendar date
\* (bare or zero-padded, read day first) and for its strict YYYY-MM-DD
\* phrasing, the same result: the one-entry sequence of the canonical string
C16_DayFirstAndStrictAgree ==
    parsed.called =>
        LET ds == parsed.input.ds
        IN /\ IsDayFirstDate(ds) => parsed.out = <<Canon(ds.f[3][1], ds.f[2][1], ds.f[1][1])>>
           /\ IsStrictDate(ds) => parsed.out = <<Canon(ds.f[1][1], ds.f[2][1], ds.f[3][1])>>

C16_Witness ==
    /\ parsed.called
    /\ parsed.input.ds = NumStr(<< <<4, 1>>, <<5, 1>>, <<2024, 4>> >>)
    /\ parsed.out = <<Canon(2024, 5, 4)>>

C16_WitnessStrict ==
    /\ parsed.called
    /\ parsed.input.ds = Canon(2024, 5, 4)
    /\ parsed.out = <<Canon(2024, 5, 4)>>

\* the month a word names
MonthNames ==
    [january |-> 1, february |-> 2, march |-> 3, april |-> 4, may |-> 5, june |-> 6, july |-> 7,
     august |-> 8, september |-> 9, october |-> 10, november |-> 11, december |-> 12]

\* the month a phrase names and the year it resolves to: the four-digit year
\* in the phrase, the clock's year without one
PhraseMonths(words) == {MonthNames[words[i]] : i \in {i \in DOMAIN words : words[i] \in DOMAIN MonthNames}}
PhraseYear(words, now) ==
    IF \E i \in DOMAIN words : words[i] = "2023" THEN 2023
    ELSE IF \E i \in DOMAIN words : words[i] = "2024" THEN 2024
    ELSE now

\* C17: a whole-month or bare-month phrase, with a four-digit year or without
\* one, is expanded to every calendar day of the month it names in the
\* resolved year: February 2024 gives 29 entries, February 2023 gives 28
C17_MonthPhraseExpandsToCalendarDays ==
    (parsed.called /\ PhraseMonths(parsed.input.words) # {})
        => \A m \in PhraseMonths(parsed.input.words) :
              LET y == PhraseYear(parsed.input.words, parsed.now)
              IN /\ Len(parsed.out) = CalendarDays(y, m)
                 /\ \A d \in DOMAIN parsed.out : parsed.out[d] = Canon(y, m, d)

\* C18: handle_query never raises to its caller, whatever structured value
\* the collaborator's reply holds (a field missing or null, a null
\* confidence, a value that is no object) and whatever fails in an operation
\* or in the regression collaborator
C18_HandleQueryNeverRaises ==
    last.called => last.ret.kind # "raise"

AnalyticOps == {"predict_sales", "get_sales_summary", "find_most_sold_item"}

C19_WitnessSummary ==
    /\ LastIsRecord /\ PassesGate(LastRecord) /\ df = None
    /\ LastType = Some("summary")
    /\ last.ret.msg.tag = "Data not available for analysis."
    /\ Len(last.calls) = 1

\* the operation that matches a query type
MatchingOp(query_type) ==
    IF query_type = Some("prediction") THEN "predict_sales"
    ELSE IF query_type = Some("most_sold") THEN "find_most_sold_item"
    ELSE IF query_type \in {Some("summary"), Some("analysis")} THEN "get_sales_summary"
    ELSE "none"

\* C20: a gate-passing record makes handle_query call at most one analytics
\* operation, the one matching its query_type; a record whose query_type is
\* missing, null or none of the four types is not executed as any operation
C20_OnlyMatchingOperation ==
    (LastIsRecord /\ PassesGate(LastRecord))
        => /\ Cardinality(CallsTo(AnalyticOps)) <= 1
           /\ \A i \in CallsTo(AnalyticOps) : last.calls[i].op = MatchingOp(LastType)

\* the last call ran get_sales_summary on a loaded dataset with dates, if any,
\* that are canonical strings of calendar dates
LastSummarized ==
    /\ last.called /\ df # None
    /\ CallsTo({"get_sales_summary"}) # {}
    /\ last.calls[1].dates # None =>
          \A k \in DOMAIN last.calls[1].dates[1] : IsStrictDate(last.calls[1].dates[1][k])

\* the rows matching the filter of a get_sales_summary call: the item given,
\* if one is given, on one of the dates given, if dates are given
SummaryRows(c) ==
    SelectSeq(df[1], LAMBDA r :
        /\ (c.item_id = None \/ r.item = c.item_id[1])
        /\ (c.dates = None
              \/ \E k \in DOMAIN c.dates[1] :
                    r.date = <<c.dates[1][k].f[1][1], c.dates[1][k].f[2][1], c.dates[1][k].f[3][1]>>))

\* C21: when no row matches the item/date filter, get_sales_summary returns
\* the 'no data found' outcome and no statistics; when the matching rows all
\* have quantity 0, it returns the statistics, all 0, a different outcome
C21_EmptyFilterIsNoData ==
    LastSummarized =>
        LET rows == SummaryRows(last.calls[1])
        IN IF rows = <<>>
           THEN /\ last.ret.msg.tag = "No data found for the specified criteria."
                /\ last.ret.msg.nums = <<>>
           ELSE /\ last.ret.msg.tag = "Sales Summary"
                /\ (\A i \in DOMAIN rows : rows[i].sold = 0) =>
                      \A n \in 1..4 : last.ret.msg.nums[n] = 0

\* C23: when get_sales_summary is given an item id, 0 included, the total,
\* maximum and minimum it reports are those of the rows of that item (on the
\* dates given, if any), and the item is named in the summary
C23_SummaryFiltersGivenItem ==
    (LastSummarized /\ last.calls[1].item_id # None /\ last.ret.msg.tag = "Sales Summary")
        => LET rows == SummaryRows(last.calls[1])
               sold == {rows[i].sold : i \in DOMAIN rows}
           IN /\ rows # <<>>
              /\ last.ret.msg.item = last.calls[1].item_id
              /\ last.ret.msg.nums[1] = SumSold(rows)
              /\ last.ret.msg.nums[3] \in sold /\ \A x \in sold : x <= last.ret.msg.nums[3]
              /\ last.ret.msg.nums[4] \in sold /\ \A x \in sold : x >= last.ret.msg.nums[4]

SortedAscending(seq) == \A i, j \in DOMAIN seq : i < j => seq[i] < seq[j]

\* C22 as stated: in every state after initialization, a failed dataset load
\* included, available_items is non-empty and sorted ascending (stated of the
\* states a handle_query call leaves)
C22_ItemsNonEmptySorted ==
    last.called => (available_items # <<>> /\ SortedAscending(available_items))

\* C22 amended: available_items is sorted ascending in every state; it holds
\* exactly the items of the dataset's rows when the dataset loaded and is
\* empty after a failed load (with the default date bounds); no step changes
\* it, the date bounds or the dataset's rows
C22_DataContextFixed ==
    [][/\ df' = df /\ available_items' = available_items /\ date_range' = date_range
       /\ SortedAscending(available_items')
       /\ IF df' = None
          THEN /\ available_items' = <<>>
               /\ date_range' = [min_date |-> Canon(2020, 1, 1), max_date |-> Canon(2024, 12, 31)]
          ELSE /\ available_items' # <<>>
               /\ {available_items'[i] : i \in DOMAIN available_items'} = ItemsOf(df'[1])]_vars

C22_Witness ==
    /\ last.called /\ CallsTo(AnalyticOps) # {}
    /\ Len(conversation_history) = 1
    /\ df # None
    /\ Len(available_items) = Cardinality(ItemsOf(df[1]))
    /\ SortedAscending(available_items)

C22_WitnessFailedLoad ==
    /\ last.called /\ df = None /\ available_items = <<>>
    /\ CallsTo(AnalyticOps) # {}

\* C24: within one query the steps of a prediction follow in order, each only
\* after the one before succeeded: the turn is appended only after the
\* rendering call, the rendering call is made only after predict_sales gave a
\* prediction, predict_sales is called only for an extracted record that
\* passed the gate, whose item is available and whose date is present and
\* parses; when the rendering collaborator fails the returned text holds the
\* raw result and the turn is recorded
C24_PredictionStepsInOrder ==
    last.called =>
        /\ ~HistoryUnchanged =>
              /\ CallsTo({"generate_response"}) # {}
              /\ conversation_history = last.before \o <<LastTurn>>
        /\ CallsTo({"generate_response"}) # {} =>
              /\ CallsTo({"predict_sales"}) = {1} /\ CallsTo({"generate_response"}) = {2}
              /\ ~HistoryUnchanged
              /\ LastTurn.result.tag \notin FailedPredictions
              /\ last.env.render = "fail" =>
                    /\ last.ret.kind = "text"
                    /\ last.ret.msg.tag = "Here are your prediction results"
                    /\ last.ret.msg.inner = <<LastTurn.result>>
        /\ CallsTo({"predict_sales"}) # {} =>
              /\ LastIsRecord
              /\ ~BelowThreshold(LastRecord) /\ ~HasMissingInfo(LastRecord)
              /\ DictGet(LastRecord, "item_id", None) # None
              /\ InAvailable(LastRecord["item_id"][1])
              /\ DictGet(LastRecord, "date", None) # None
              /\ StrptimeOk(LastRecord["date"][1])
              /\ last.calls[1].item_id = LastRecord["item_id"]
              /\ last.calls[1].dates = Some(<<LastRecord["date"][1]>>)

====
